---- MODULE Spec2Model ----
(***************************************************************************)
(* django-proxylist, proxylist/models.py: the check of one Proxy against a *)
(* Mirror, synchronously or through the task queue, by several processes   *)
(* that share the cache, the database row of the Proxy and the table of    *)
(* ProxyCheckResult rows.                                                  *)
(*                                                                         *)
(* Time is an integer number of seconds (now()).  One Proxy row (pk 1) is  *)
(* modelled; every lock key, row and task below belongs to it.             *)
(* Failures are drawn at the five places inside the try block of _check    *)
(* (result construction, request, parsing, proxy update, result save);     *)
(* the except handler and cache.delete are taken to complete.              *)
(*                                                                         *)
(* Spec, SpecCalls and SpecSeq are the checks of a Proxy "1.2.3.4" with    *)
(* the construction of the result as one step.  SpecProxy adds saves of    *)
(* the Proxy made outside a check and a hostname GeoIP does not know;      *)
(* SpecIp is the construction of ProxyCheckResult alone, with the cached   *)
(* lookup of the outbound IP; SpecLive adds an enqueue that raises and a   *)
(* process killed inside _check, and lets time pass.                       *)
(***************************************************************************)
EXTENDS Integers, Sequences, FiniteSets, TLC

\* ------------------------------------------------------------- bounds
MaxTime == 1
MaxChecks == 2
MaxEdits == 1

\* -------------------------------------------------- program constants
ANONYMITY_NONE == 0
ANONYMITY_LOW == 1
ANONYMITY_MEDIUM == 2
ANONYMITY_HIGH == 3

PROXY_LIST_MIN_CHECK_INTERVAL == 1
PROXY_LIST_MAX_CHECK_INTERVAL == 2
PROXY_LIST_ERROR_DELAY == 2
PROXY_LIST_CACHE_TIMEOUT == 1
PROXY_LIST_OUTIP_INTERVAL == 2

\* null of a nullable DateTimeField
None == -1

\* what cache.get returns for a missing key
NoValue == "<None>"

Procs == {"w1", "w2"}

\* one process that makes the calls and runs the tasks
OneProcess == {"w1"}

OutputTypes == {"plm_v1", "other"}

\* what a plm_v1 mirror can report: <<forwarded, ip_reveal>>
Responses == BOOLEAN \X BOOLEAN

\* the reports drawn where checks run concurrently
SomeResponses == {<<FALSE, TRUE>>, <<TRUE, FALSE>>}

\* hostnames as character sequences: "1.2.3.4"
Hostnames == { <<"1", ".", "2", ".", "3", ".", "4">> }

\* the hostnames a Proxy is created with or edited to: "1.2.3.4" and "a.b"
AllHostnames == Hostnames \cup { <<"a", ".", "b">> }

CheckKey == "proxy.1.check"

\* '%s.%s.ip' % (socket.gethostname(), os.getpid()): one key per process
ip_key(p) == IF p = "w1" THEN "host.w1.ip" ELSE "host.w2.ip"

\* what http://ifconfig.me/ip can answer: the address and a newline, or a
\* newline alone
Bodies == {"9.9.9.9\n", "\n"}

\* str.strip on those bodies
strip(b) == IF b = "9.9.9.9\n" THEN "9.9.9.9" ELSE IF b = "\n" THEN "" ELSE b

VARIABLES
    now,        \* the clock read by now()
    useCelery,  \* defaults.PROXY_LIST_USE_CALLERY
    cache,      \* django.core.cache: key -> [value, expires], live keys only
    db,         \* the stored Proxy row
    results,    \* the stored ProxyCheckResult rows, in insertion order
    queue,      \* tasks handed to apply_async and not yet taken by a worker
    pc,         \* where each process is
    obj,        \* each process's in-memory Proxy instance
    mir,        \* output_type of the Mirror each process checks against
    res,        \* each process's in-memory ProxyCheckResult
    raising,    \* whether _check of the process is leaving with an exception
    refused,    \* history: the step just taken was a Mirror.check that returned None
    started,    \* history: checks that went past the lock test
    succeeded,  \* history: executions of _check that returned their result
    consecFails,\* history: failed executions since the last successful one
    ttlElapsed, \* history: a lock entry expired before it was deleted
    ip,         \* each process's local ip in _get_real_ip
    geoCalls,   \* history: calls of country_code_by_addr / country_code_by_name
    edits       \* history: saves of the Proxy made outside a check

vars == <<now, useCelery, cache, db, results, queue, pc, obj, mir, res, raising,
          refused, started, succeeded, consecFails, ttlElapsed, ip, geoCalls, edits>>

\* ------------------------------------------------------ pure functions

RECURSIVE count(_, _)
count(s, ch) ==
    IF s = <<>> THEN 0
    ELSE (IF Head(s) = ch THEN 1 ELSE 0) + count(Tail(s), ch)

\* pygeoip on the local database: the dotted quad is known, the name is not
country_code_by_addr(h) == IF h = <<"1", ".", "2", ".", "3", ".", "4">> THEN "US" ELSE ""
country_code_by_name(h) == IF h = <<"1", ".", "2", ".", "3", ".", "4">> THEN "US" ELSE ""

anonymity_swapped(forwarded, ip_reveal) ==
    IF forwarded /\ ip_reveal THEN ANONYMITY_NONE
    ELSE IF ~forwarded /\ ip_reveal THEN ANONYMITY_MEDIUM
    ELSE IF forwarded /\ ~ip_reveal THEN ANONYMITY_LOW
    ELSE ANONYMITY_HIGH

anonymity(forwarded, ip_reveal) ==
    IF forwarded /\ ip_reveal THEN ANONYMITY_NONE
    ELSE IF ~forwarded /\ ip_reveal THEN ANONYMITY_LOW
    ELSE IF forwarded /\ ~ip_reveal THEN ANONYMITY_MEDIUM
    ELSE ANONYMITY_HIGH

\* ---------------------------------------------------------- the cache

cache_get(c, k) == IF k \in DOMAIN c THEN c[k].value ELSE NoValue

bool(v) == v \notin {NoValue, ""}

cache_add_forever(c, k, v, timeout, t) ==
    IF k \in DOMAIN c THEN c
    ELSE [x \in DOMAIN c \cup {k} |->
            IF x = k THEN [value |-> v, expires |-> t + timeout + MaxTime + 1] ELSE c[x]]

\* add-if-absent; the caller never reads whether the key was written
cache_add(c, k, v, timeout, t) ==
    IF k \in DOMAIN c THEN c
    ELSE [x \in DOMAIN c \cup {k} |->
            IF x = k THEN [value |-> v, expires |-> t + timeout] ELSE c[x]]

\* set: written whether or not the key is there
cache_set(c, k, v, timeout, t) ==
    [x \in DOMAIN c \cup {k} |->
        IF x = k THEN [value |-> v, expires |-> t + timeout] ELSE c[x]]

cache_delete(c, k) == [x \in DOMAIN c \ {k} |-> c[x]]

cache_expire_never(c, t) == c

\* the entries that are still alive at time t
cache_expire(c, t) == [x \in {y \in DOMAIN c : t < c[y].expires} |-> c[x]]

\* the lock test on a key that is never written
is_checking_other_key(c) == bool(cache_get(c, "proxy.check"))

is_checking(c) == bool(cache_get(c, CheckKey))

\* ---------------------------------------------------------- the Proxy

update_next_check_no_backoff(o, d, t) ==
    IF o.last_check # None
    THEN [o EXCEPT !.next_check = o.last_check + d]
    ELSE [o EXCEPT !.next_check = t + d]

\* d is the value randint() returned
update_next_check(o, d, t) ==
    LET delay == d + PROXY_LIST_ERROR_DELAY * o.errors
    IN  IF o.last_check # None
        THEN [o EXCEPT !.next_check = o.last_check + delay]
        ELSE [o EXCEPT !.next_check = t + delay]

\* Proxy.save: how many GeoIP resolutions saving the instance o runs
geoip_calls(o) == IF o.country = "" THEN 1 ELSE 0

save_leave_next_check(o, d, t) ==
    IF o.country = ""
    THEN [o EXCEPT !.country =
              IF count(o.hostname, ".") = 3
              THEN country_code_by_addr(o.hostname)
              ELSE country_code_by_name(o.hostname)]
    ELSE o

\* Proxy.save: the row that is written
save(o, d, t) ==
    LET o1 == IF o.country = ""
              THEN [o EXCEPT !.country =
                        IF count(o.hostname, ".") = 3
                        THEN country_code_by_addr(o.hostname)
                        ELSE country_code_by_name(o.hostname)]
              ELSE o
    IN  IF o1.next_check = None THEN update_next_check(o1, d, t) ELSE o1

update_from_check_keep_errors(o, check, d, t) ==
    LET o1 == [o EXCEPT !.last_check = IF check.check_start # None
                                       THEN check.check_start ELSE t,
                        !.anonymity_level = anonymity(check.forwarded, check.ip_reveal)]
    IN  save(update_next_check(o1, d, t), d, t)

\* the instance after update_from_check, as save() writes it
update_from_check(o, check, d, t) ==
    LET o1 == [o EXCEPT !.last_check = IF check.check_start # None
                                       THEN check.check_start ELSE t,
                        !.errors = 0,
                        !.anonymity_level = anonymity(check.forwarded, check.ip_reveal)]
    IN  save(update_next_check(o1, d, t), d, t)

update_from_error_no_count(o, d, t) ==
    save(update_next_check([o EXCEPT !.last_check = t], d, t), d, t)

\* the instance after update_from_error, as save() writes it
update_from_error(o, d, t) ==
    LET o1 == [o EXCEPT !.last_check = t, !.errors = o.errors + 1]
    IN  save(update_next_check(o1, d, t), d, t)

\* Proxy(hostname=h): the field defaults
NewProxy(h) ==
    [hostname |-> h, country |-> "", anonymity_level |-> ANONYMITY_NONE,
     last_check |-> None, next_check |-> None, errors |-> 0]

\* ProxyCheckResult(): the field defaults
NewResult == [check_start |-> None, forwarded |-> TRUE, ip_reveal |-> TRUE]

Delays == PROXY_LIST_MIN_CHECK_INTERVAL .. PROXY_LIST_MAX_CHECK_INTERVAL

\* -------------------------------------------------------------- state

NoProxy == NewProxy(<<>>)

ExecPcs == {"request", "update", "save", "except", "finally"}

Executing == {p \in Procs : pc[p] \in ExecPcs}

\* checks enqueued or executing _check
InFlight == Len(queue) + Cardinality(Executing)

\* no process is inside Mirror.check between the lock test and apply_async
NoCall == \A q \in Procs : pc[q] \notin {"add", "enqueue"}

\* no check is being dispatched, is enqueued or is executing
Quiet == NoCall /\ InFlight = 0

\* the Proxy exists: it was saved once, at time 0
Init ==
    /\ now = 0
    /\ useCelery \in BOOLEAN
    /\ cache = <<>>
    /\ \E h \in Hostnames, d \in Delays : db = save(NewProxy(h), d, 0)
    /\ results = <<>>
    /\ queue = <<>>
    /\ pc = [p \in Procs |-> "idle"]
    /\ obj = [p \in Procs |-> NoProxy]
    /\ mir = [p \in Procs |-> "plm_v1"]
    /\ res = [p \in Procs |-> NewResult]
    /\ raising = [p \in Procs |-> FALSE]
    /\ refused = FALSE
    /\ started = 0
    /\ succeeded = 0
    /\ consecFails = 0
    /\ ttlElapsed = FALSE
    /\ ip = [p \in Procs |-> NoValue]
    /\ \E h \in Hostnames : geoCalls = geoip_calls(NewProxy(h))
    /\ edits = 0

\* ------------------------------------------------------------ actions
\* A local that the code does not read again is put back to its default.

\* the clock advances; entries past their timeout leave the cache
Tick ==
    /\ now < MaxTime
    /\ now' = now + 1
    /\ cache' = cache_expire(cache, now + 1)
    /\ ttlElapsed' = (ttlElapsed \/ DOMAIN cache' # DOMAIN cache)
    /\ refused' = FALSE
    /\ UNCHANGED <<useCelery, db, results, queue, pc, obj, mir, res, raising,
                   started, succeeded, consecFails, ip, geoCalls, edits>>

\* _check: res = ProxyCheckResult(); res.check_start = now(), or the failure
\* of the construction (the lookup of the outbound IP)
Construct(p) ==
    \/ /\ res' = [res EXCEPT ![p] = [NewResult EXCEPT !.check_start = now]]
       /\ pc' = [pc EXCEPT ![p] = "request"]
    \/ /\ pc' = [pc EXCEPT ![p] = "except"]
       /\ UNCHANGED res

\* Mirror.check on the Proxy row as the caller read it: in async mode up to
\* the lock test, else into _check
check(p) ==
    /\ pc[p] = "idle"
    /\ \/ /\ ~useCelery
          /\ started < MaxChecks
          /\ \E m \in OutputTypes : mir' = [mir EXCEPT ![p] = m]
          /\ obj' = [obj EXCEPT ![p] = db]
          /\ Construct(p)
          /\ started' = started + 1
          /\ refused' = FALSE
       \/ /\ useCelery
          /\ is_checking(cache)
          /\ refused' = TRUE
          /\ UNCHANGED <<mir, obj, pc, res, started>>
       \/ /\ useCelery
          /\ ~is_checking(cache)
          /\ started < MaxChecks
          /\ \E m \in OutputTypes : mir' = [mir EXCEPT ![p] = m]
          /\ obj' = [obj EXCEPT ![p] = db]
          /\ pc' = [pc EXCEPT ![p] = "add"]
          /\ started' = started + 1
          /\ refused' = FALSE
          /\ UNCHANGED res
    /\ UNCHANGED <<ip, geoCalls, edits, now, useCelery, cache, db, results, queue, raising,
                   succeeded, consecFails, ttlElapsed>>

\* Mirror.check: cache.add(check_key, "true", PROXY_LIST_CACHE_TIMEOUT)
task_lock(p) ==
    /\ pc[p] = "add"
    /\ cache' = cache_add(cache, CheckKey, "true", PROXY_LIST_CACHE_TIMEOUT, now)
    /\ pc' = [pc EXCEPT ![p] = "enqueue"]
    /\ refused' = FALSE
    /\ UNCHANGED <<ip, geoCalls, edits, now, useCelery, db, results, queue, obj, mir, res, raising,
                   started, succeeded, consecFails, ttlElapsed>>

\* Mirror.check: return async_check.apply_async((proxy, self))
apply_async(p) ==
    /\ pc[p] = "enqueue"
    /\ queue' = Append(queue, [proxy |-> obj[p], mirror |-> mir[p]])
    /\ pc' = [pc EXCEPT ![p] = "idle"]
    /\ obj' = [obj EXCEPT ![p] = NoProxy]
    /\ mir' = [mir EXCEPT ![p] = "plm_v1"]
    /\ refused' = FALSE
    /\ UNCHANGED <<ip, geoCalls, edits, now, useCelery, cache, db, results, res, raising,
                   started, succeeded, consecFails, ttlElapsed>>

\* a worker takes the next task and enters mirror._check(proxy)
async_check(p) ==
    /\ pc[p] = "idle"
    /\ queue # <<>>
    /\ obj' = [obj EXCEPT ![p] = Head(queue).proxy]
    /\ mir' = [mir EXCEPT ![p] = Head(queue).mirror]
    /\ queue' = Tail(queue)
    /\ Construct(p)
    /\ refused' = FALSE
    /\ UNCHANGED <<ip, geoCalls, edits, now, useCelery, cache, db, results, raising,
                   started, succeeded, consecFails, ttlElapsed>>

Request_parse_any_type(p, R) ==
    /\ pc[p] = "request"
    /\ \/ /\ \E a \in R :
                res' = [res EXCEPT ![p].forwarded = a[1], ![p].ip_reveal = a[2]]
          /\ pc' = [pc EXCEPT ![p] = "update"]
       \/ /\ pc' = [pc EXCEPT ![p] = "except"]
          /\ res' = [res EXCEPT ![p] = NewResult]
    /\ refused' = FALSE
    /\ UNCHANGED <<ip, geoCalls, edits, now, useCelery, cache, db, results, queue, obj, mir, raising,
                   started, succeeded, consecFails, ttlElapsed>>

\* _check: _make_request, then the parse chosen by output_type; R is the set
\* of reports the mirror can give
Request(p, R) ==
    /\ pc[p] = "request"
    /\ \/ /\ mir[p] = "plm_v1"
          /\ \E a \in R :
                res' = [res EXCEPT ![p].forwarded = a[1], ![p].ip_reveal = a[2]]
          /\ pc' = [pc EXCEPT ![p] = "update"]
       \/ /\ mir[p] # "plm_v1"
          /\ pc' = [pc EXCEPT ![p] = "except"]
          /\ res' = [res EXCEPT ![p] = NewResult]
       \/ /\ pc' = [pc EXCEPT ![p] = "except"]
          /\ res' = [res EXCEPT ![p] = NewResult]
    /\ refused' = FALSE
    /\ UNCHANGED <<ip, geoCalls, edits, now, useCelery, cache, db, results, queue, obj, mir, raising,
                   started, succeeded, consecFails, ttlElapsed>>

\* _check: proxy.update_from_check(res); its save() may fail after the
\* instance was changed
UpdateFromCheck(p) ==
    /\ pc[p] = "update"
    /\ \E d \in Delays :
          obj' = [obj EXCEPT ![p] = update_from_check(obj[p], res[p], d, now)]
    /\ \/ /\ db' = obj'[p]
          /\ pc' = [pc EXCEPT ![p] = "save"]
          /\ UNCHANGED res
       \/ /\ pc' = [pc EXCEPT ![p] = "except"]
          /\ res' = [res EXCEPT ![p] = NewResult]
          /\ UNCHANGED db
    /\ geoCalls' = geoCalls + geoip_calls(obj[p])
    /\ refused' = FALSE
    /\ UNCHANGED <<ip, edits, now, useCelery, cache, results, queue, mir, raising,
                   started, succeeded, consecFails, ttlElapsed>>

SaveResult_keep_partial(p) ==
    /\ pc[p] = "save"
    /\ results' = Append(results, res[p])
    /\ \/ /\ pc' = [pc EXCEPT ![p] = "finally"]
          /\ obj' = [obj EXCEPT ![p] = NoProxy]
          /\ mir' = [mir EXCEPT ![p] = "plm_v1"]
       \/ /\ pc' = [pc EXCEPT ![p] = "except"]
          /\ UNCHANGED <<obj, mir>>
    /\ res' = [res EXCEPT ![p] = NewResult]
    /\ refused' = FALSE
    /\ UNCHANGED <<ip, geoCalls, edits, now, useCelery, cache, db, queue, raising,
                   started, succeeded, consecFails, ttlElapsed>>

\* _check: res.save(); return res
SaveResult(p) ==
    /\ pc[p] = "save"
    /\ \/ /\ results' = Append(results, res[p])
          /\ pc' = [pc EXCEPT ![p] = "finally"]
          /\ obj' = [obj EXCEPT ![p] = NoProxy]
          /\ mir' = [mir EXCEPT ![p] = "plm_v1"]
       \/ /\ pc' = [pc EXCEPT ![p] = "except"]
          /\ UNCHANGED <<results, obj, mir>>
    /\ res' = [res EXCEPT ![p] = NewResult]
    /\ refused' = FALSE
    /\ UNCHANGED <<ip, geoCalls, edits, now, useCelery, cache, db, queue, raising,
                   started, succeeded, consecFails, ttlElapsed>>

\* _check: except: proxy.update_from_error(); raise
UpdateFromError(p) ==
    /\ pc[p] = "except"
    /\ \E d \in Delays : db' = update_from_error(obj[p], d, now)
    /\ geoCalls' = geoCalls + geoip_calls(obj[p])
    /\ pc' = [pc EXCEPT ![p] = "finally"]
    /\ raising' = [raising EXCEPT ![p] = TRUE]
    /\ obj' = [obj EXCEPT ![p] = NoProxy]
    /\ refused' = FALSE
    /\ UNCHANGED <<ip, edits, now, useCelery, cache, results, queue, mir, res,
                   started, succeeded, consecFails, ttlElapsed>>

Finally_unlock_on_return(p) ==
    /\ pc[p] = "finally"
    /\ cache' = IF raising[p] THEN cache ELSE cache_delete(cache, CheckKey)
    /\ pc' = [pc EXCEPT ![p] = "idle"]
    /\ succeeded' = IF raising[p] THEN succeeded ELSE succeeded + 1
    /\ consecFails' = IF raising[p] THEN consecFails + 1 ELSE 0
    /\ raising' = [raising EXCEPT ![p] = FALSE]
    /\ mir' = [mir EXCEPT ![p] = "plm_v1"]
    /\ refused' = FALSE
    /\ UNCHANGED <<ip, geoCalls, edits, now, useCelery, db, results, queue, obj, res, started, ttlElapsed>>

\* _check: finally: cache.delete(check_key); then the return or the raise
Finally(p) ==
    /\ pc[p] = "finally"
    /\ cache' = cache_delete(cache, CheckKey)
    /\ pc' = [pc EXCEPT ![p] = "idle"]
    /\ succeeded' = IF raising[p] THEN succeeded ELSE succeeded + 1
    /\ consecFails' = IF raising[p] THEN consecFails + 1 ELSE 0
    /\ raising' = [raising EXCEPT ![p] = FALSE]
    /\ mir' = [mir EXCEPT ![p] = "plm_v1"]
    /\ refused' = FALSE
    /\ UNCHANGED <<ip, geoCalls, edits, now, useCelery, db, results, queue, obj, res, started, ttlElapsed>>

\* Mirror.check: apply_async raises (the broker cannot be reached); the lock
\* entry written one line above stays, no task is queued
apply_async_raises(p) ==
    /\ pc[p] = "enqueue"
    /\ pc' = [pc EXCEPT ![p] = "idle"]
    /\ obj' = [obj EXCEPT ![p] = NoProxy]
    /\ mir' = [mir EXCEPT ![p] = "plm_v1"]
    /\ refused' = FALSE
    /\ UNCHANGED <<ip, geoCalls, edits, now, useCelery, cache, db, results, queue,
                   res, raising, started, succeeded, consecFails, ttlElapsed>>

\* the process running _check is killed: no except clause, no finally
\* clause runs; it comes back idle
Crash(p) ==
    /\ pc[p] \in ExecPcs
    /\ pc' = [pc EXCEPT ![p] = "idle"]
    /\ obj' = [obj EXCEPT ![p] = NoProxy]
    /\ mir' = [mir EXCEPT ![p] = "plm_v1"]
    /\ res' = [res EXCEPT ![p] = NewResult]
    /\ raising' = [raising EXCEPT ![p] = FALSE]
    /\ refused' = FALSE
    /\ UNCHANGED <<ip, geoCalls, edits, now, useCelery, cache, db, results, queue,
                   started, succeeded, consecFails, ttlElapsed>>

\* ProxyCheckResult() with no real_ip_address given: _get_real_ip up to the
\* test of the cached value, which is returned when it is truthy
get_real_ip(p) ==
    /\ pc[p] = "idle"
    /\ started < MaxChecks
    /\ started' = started + 1
    /\ ip' = [ip EXCEPT ![p] = cache_get(cache, ip_key(p))]
    /\ pc' = [pc EXCEPT ![p] = IF bool(ip'[p]) THEN "idle" ELSE "grab"]
    /\ refused' = FALSE
    /\ UNCHANGED <<geoCalls, edits, now, useCelery, cache, db, results, queue, obj,
                   mir, res, raising, succeeded, consecFails, ttlElapsed>>

\* _get_real_ip: the request to ifconfig.me, then cache.set and return; or
\* the request raises and the construction fails
ifconfig(p) ==
    /\ pc[p] = "grab"
    /\ \/ \E b \in Bodies :
             /\ ip' = [ip EXCEPT ![p] = strip(b)]
             /\ cache' = cache_set(cache, ip_key(p), strip(b),
                                   PROXY_LIST_OUTIP_INTERVAL, now)
       \/ /\ ip' = [ip EXCEPT ![p] = NoValue]
          /\ UNCHANGED cache
    /\ pc' = [pc EXCEPT ![p] = "idle"]
    /\ refused' = FALSE
    /\ UNCHANGED <<geoCalls, edits, now, useCelery, db, results, queue, obj, mir,
                   res, raising, started, succeeded, consecFails, ttlElapsed>>

\* a save of the Proxy outside a check: the row is loaded, hostname is set
\* to h, next_check is kept or blanked, and Proxy.save() runs
EditProxy ==
    /\ edits < MaxEdits
    /\ \E h \in AllHostnames, blank \in BOOLEAN, d \in Delays :
          LET o == [db EXCEPT !.hostname = h,
                              !.next_check = IF blank THEN None ELSE @]
          IN  /\ db' = save(o, d, now)
              /\ geoCalls' = geoCalls + geoip_calls(o)
    /\ edits' = edits + 1
    /\ refused' = FALSE
    /\ UNCHANGED <<ip, now, useCelery, cache, results, queue, pc, obj, mir, res,
                   raising, started, succeeded, consecFails, ttlElapsed>>

\* ----------------------------------------------------- specifications

\* any number of processes call Mirror.check and run tasks, in any order
Next ==
    \/ Tick
    \/ \E p \in Procs :
        \/ check(p)
        \/ task_lock(p)
        \/ apply_async(p)
        \/ async_check(p)
        \/ Request(p, SomeResponses)
        \/ UpdateFromCheck(p)
        \/ SaveResult(p)
        \/ UpdateFromError(p)
        \/ Finally(p)

Spec == Init /\ [][Next]_vars

\* the calls of Mirror.check come one after another; the tasks they enqueue
\* run beside them
NextCalls ==
    \/ Tick
    \/ \E p \in Procs :
        \/ NoCall /\ check(p)
        \/ task_lock(p)
        \/ apply_async(p)
        \/ async_check(p)
        \/ Request(p, SomeResponses)
        \/ UpdateFromCheck(p)
        \/ SaveResult(p)
        \/ UpdateFromError(p)
        \/ Finally(p)

SpecCalls == Init /\ [][NextCalls]_vars

\* the checks come one after another: a check is let past the lock test
\* only when none is being dispatched, enqueued or executing
NextSeq ==
    \/ Tick
    \/ \E p \in Procs :
        \/ (Quiet \/ is_checking(cache)) /\ check(p)
        \/ task_lock(p)
        \/ apply_async(p)
        \/ async_check(p)
        \/ Request(p, Responses)
        \/ UpdateFromCheck(p)
        \/ SaveResult(p)
        \/ UpdateFromError(p)
        \/ Finally(p)

SpecSeq == Init /\ [][NextSeq]_vars

\* a Proxy of any hostname exists: it was saved once, at time 0
InitProxy ==
    /\ now = 0
    /\ useCelery \in BOOLEAN
    /\ cache = <<>>
    /\ \E h \in AllHostnames :
          /\ \E d \in Delays : db = save(NewProxy(h), d, 0)
          /\ geoCalls = geoip_calls(NewProxy(h))
    /\ results = <<>>
    /\ queue = <<>>
    /\ pc = [p \in Procs |-> "idle"]
    /\ obj = [p \in Procs |-> NoProxy]
    /\ mir = [p \in Procs |-> "plm_v1"]
    /\ res = [p \in Procs |-> NewResult]
    /\ raising = [p \in Procs |-> FALSE]
    /\ refused = FALSE
    /\ started = 0
    /\ succeeded = 0
    /\ consecFails = 0
    /\ ttlElapsed = FALSE
    /\ ip = [p \in Procs |-> NoValue]
    /\ edits = 0

\* one process makes the calls and runs the tasks, so the checks come one
\* after another; the Proxy is edited and saved outside them at any moment
NextProxy ==
    \/ Tick
    \/ EditProxy
    \/ \E p \in OneProcess :
        \/ (Quiet \/ is_checking(cache)) /\ check(p)
        \/ task_lock(p)
        \/ apply_async(p)
        \/ async_check(p)
        \/ Request(p, SomeResponses)
        \/ UpdateFromCheck(p)
        \/ SaveResult(p)
        \/ UpdateFromError(p)
        \/ Finally(p)

SpecProxy == InitProxy /\ [][NextProxy]_vars

\* the processes construct ProxyCheckResult objects, one after another in
\* each process
NextIp ==
    \/ Tick
    \/ \E p \in Procs :
        \/ get_real_ip(p)
        \/ ifconfig(p)

SpecIp == Init /\ [][NextIp]_vars

\* one process makes the calls and runs the tasks; an enqueue may raise and
\* the process may be killed inside _check.  The clock of the model stops at MaxTime, so a lock
\* entry is written only while its timeout falls within it.
NextLive ==
    \/ Tick
    \/ \E p \in OneProcess :
        \/ check(p)
        \/ now + PROXY_LIST_CACHE_TIMEOUT <= MaxTime /\ task_lock(p)
        \/ apply_async(p)
        \/ apply_async_raises(p)
        \/ async_check(p)
        \/ Request(p, SomeResponses)
        \/ UpdateFromCheck(p)
        \/ SaveResult(p)
        \/ UpdateFromError(p)
        \/ Finally(p)
        \/ Crash(p)

\* time passes, whatever the processes do
SpecLive == Init /\ [][NextLive]_vars /\ WF_vars(Tick)

\* -------------------------------------------------------------- claims

LockPresent == CheckKey \in DOMAIN cache

\* C1: in async mode, while no lock entry has outlived its timeout, at most
\* one check of the proxy is enqueued or executing _check.
C1_AtMostOneInFlight == (useCelery /\ ~ttlElapsed) => InFlight <= 1

\* C2: whenever a process leaves _check, by return or by raise, the lock key
\* of the proxy is absent from the cache.
C2_LockReleasedOnExit ==
    [][\A p \in Procs :
          (pc[p] \in ExecPcs /\ pc'[p] \notin ExecPcs) => CheckKey \notin DOMAIN cache']_vars

\* a check that raised has ended in async mode, its lock deleted, not expired
C2_Witness ==
    useCelery /\ ~ttlElapsed /\ Quiet /\ consecFails >= 1 /\ ~LockPresent

\* C3: the number of stored ProxyCheckResult rows is the number of executions
\* of _check that returned their result, an execution whose res.save() is done
\* and whose finally clause is running being one that returns; an execution
\* that raises stores none.
C3_OneResultPerSuccess ==
    Len(results) =
        succeeded + Cardinality({p \in Procs : pc[p] = "finally" /\ ~raising[p]})

\* one check returned its result, then one raised: one row
C3_Witness == succeeded = 1 /\ consecFails >= 1 /\ Len(results) = 1 /\ Quiet

\* C4: with the checks of the proxy run one after another, between checks the
\* stored errors is the number of failed checks since the last successful one.
C4_ErrorsCountConsecutiveFailures == Quiet => db.errors = consecFails

\* C5: in async mode a call of Mirror.check made while the lock entry exists
\* returns None and changes neither the cache, the Proxy row, the stored
\* results nor the queue, and dispatches nothing.
C5_LockedCheckChangesNothing ==
    [][\A p \in Procs :
          (useCelery /\ LockPresent /\ check(p)) =>
              (refused' /\ pc' = pc /\ UNCHANGED <<cache, db, results, queue>>)]_vars

\* a call has just returned None while a check holds the lock
C5_Witness == useCelery /\ refused /\ LockPresent /\ InFlight >= 1

\* C6: in async mode, with the calls of Mirror.check coming one after
\* another: a call that finds the lock returns None and enqueues nothing; a
\* call that finds no lock goes on, writes the lock entry "true" with the
\* timeout PROXY_LIST_CACHE_TIMEOUT into a cache that held none, and enqueues
\* exactly one task; nothing else enqueues.
C6_SequentialCalls ==
    [][/\ \A p \in Procs :
            /\ (useCelery /\ LockPresent /\ check(p)) =>
                   (refused' /\ pc'[p] = "idle" /\ queue' = queue)
            /\ (useCelery /\ ~LockPresent /\ check(p)) => pc'[p] = "add"
            /\ (pc[p] = "add" /\ pc'[p] # "add") =>
                   /\ ~LockPresent
                   /\ CheckKey \in DOMAIN cache'
                   /\ cache_get(cache', CheckKey) = "true"
                   /\ \A k \in DOMAIN cache' \cap {CheckKey} :
                         cache'[k].expires = now + PROXY_LIST_CACHE_TIMEOUT
                   /\ pc'[p] = "enqueue"
            /\ (pc[p] = "enqueue" /\ pc'[p] # "enqueue") =>
                   (pc'[p] = "idle" /\ Len(queue') = Len(queue) + 1)
       /\ Len(queue') > Len(queue) =>
            \E p \in Procs : pc[p] = "enqueue" /\ pc'[p] = "idle"]_vars

\* the first check has ended and released the lock; the next call took the
\* lock again and enqueued its task
C6_Witness ==
    /\ useCelery /\ started = 2 /\ succeeded + consecFails = 1
    /\ LockPresent /\ Len(queue) = 1 /\ NoCall

\* C7: with the checks run one after another, when a check has stored its
\* result the stored Proxy has errors 0, the anonymity level of that result
\* and that result's check_start as last_check.
C7_SuccessUpdatesProxy ==
    \A p \in Procs :
        (pc[p] = "finally" /\ ~raising[p]) =>
            /\ results # <<>>
            /\ \A i \in {Len(results)} \ {0} :
                  /\ db.errors = 0
                  /\ db.anonymity_level =
                        anonymity(results[i].forwarded, results[i].ip_reveal)
                  /\ db.last_check = results[i].check_start

\* a check succeeds after a failed one, with a report that is not the default
C7_Witness ==
    \E p \in Procs :
        /\ pc[p] = "finally" /\ ~raising[p] /\ consecFails >= 1
        /\ db.anonymity_level = ANONYMITY_MEDIUM /\ db.last_check # None

C9_UnsupportedOutputTypeFails ==
    [][\A p \in Procs :
          (mir[p] # "plm_v1" /\ pc[p] \in ExecPcs) =>
              /\ pc[p] \notin {"update", "save"}
              /\ pc[p] \in {"request", "except"} => obj[p].errors = db.errors
              /\ pc[p] = "finally" => raising[p]
              /\ pc'[p] # pc[p] =>
                    /\ results' = results
                    /\ pc[p] = "request" => (pc'[p] = "except" /\ db' = db)
                    /\ pc[p] = "except" =>
                          (pc'[p] = "finally" /\ db'.errors = db.errors + 1)
                    /\ pc[p] = "finally" =>
                          (pc'[p] = "idle" /\ consecFails' = consecFails + 1)]_vars

\* a check against an unsupported mirror has raised: no result, one error
C9_Witness ==
    \E p \in Procs :
        /\ pc[p] = "finally" /\ raising[p] /\ mir[p] = "other"
        /\ db.errors = 1 /\ results = <<>> /\ started = 1

\* C10: the level update_from_check stores for a result is NONE (0) for
\* (forwarded, ip_reveal) = (true, true), LOW (1) for (false, true),
\* MEDIUM (2) for (true, false) and HIGH (3) for (false, false).
C10_AnonymityTable ==
    \A p \in Procs :
        pc[p] = "save" =>
            db.anonymity_level =
                IF res[p].forwarded /\ res[p].ip_reveal THEN 0
                ELSE IF ~res[p].forwarded /\ res[p].ip_reveal THEN 1
                ELSE IF res[p].forwarded /\ ~res[p].ip_reveal THEN 2
                ELSE 3

\* a report without proxy headers that reveals the IP was classified LOW
C10_Witness ==
    \E p \in Procs :
        /\ pc[p] = "save" /\ ~res[p].forwarded /\ res[p].ip_reveal
        /\ db.anonymity_level = 1

\* C11: once the stored country of the Proxy is non-empty, no step (a save
\* outside a check, with or without a new hostname, a successful check, a
\* failed check) changes it.
C11_CountryWriteOnce == [][db.country # "" => db'.country = db.country]_vars

\* C12: while the cache holds a live entry under the outbound-IP key of a
\* process, written less than PROXY_LIST_OUTIP_INTERVAL ago, no construction
\* in that process issues the external lookup again.
C12_OneLookupPerWindow ==
    [][\A p \in Procs :
          (pc[p] = "idle" /\ pc'[p] = "grab") => ip_key(p) \notin DOMAIN cache]_vars

\* C13: the stored Proxy, which exists only once it has been saved, has a
\* next_check that is not null, whatever saves and checks have followed.
C13_NextCheckNeverNull == db.next_check # None

\* the row has been through its first save, a failed check and a save made
\* outside a check
C13_Witness ==
    /\ edits >= 1 /\ consecFails >= 1 /\ Quiet
    /\ db.last_check # None /\ db.next_check # None

\* C14: a check that raises leaves the stored anonymity_level as it found
\* it; so, with the checks run one after another, between checks and as long
\* as every check so far has raised (no result is stored), the level is the
\* one the Proxy was created with.
C14_FailedCheckKeepsAnonymity ==
    (Quiet /\ results = <<>>) => db.anonymity_level = ANONYMITY_NONE

\* C15: the cache.delete at the end of _check removes only the lock entry
\* written by the call that dispatched this execution.  With the calls of
\* Mirror.check one after another every call that passes the lock test writes
\* its own entry, and the queue is first-in first-out; so while a task waits
\* in the queue or is being enqueued the entry in the cache belongs to that
\* later call, and an execution that ends then leaves it in the cache.
C15_ReleaseOnlyOwnLock ==
    [][\A p \in Procs :
          (/\ pc[p] = "finally" /\ pc'[p] = "idle"
           /\ LockPresent
           /\ (queue # <<>> \/ \E q \in Procs : pc[q] = "enqueue")) =>
              CheckKey \in DOMAIN cache']_vars

\* C16: in async mode, while no lock entry has outlived its timeout,
\* is_checking is true in every state in which a check of the proxy is
\* enqueued or executing.
C16_CheckingWhileInFlight ==
    (useCelery /\ ~ttlElapsed /\ InFlight >= 1) => is_checking(cache)

\* C17: a lock entry that is in the cache is eventually out of it, by the
\* cache.delete of the check or by its timeout, also when the enqueue raised
\* or the process running the check was killed.
C17_LockEventuallyRemoved == LockPresent ~> ~LockPresent

\* a call went past the lock test and no execution of it ever ended (its
\* enqueue raised or its process was killed); the entry has expired
C17_Witness ==
    /\ useCelery /\ Quiet /\ started >= 1 /\ succeeded = 0 /\ consecFails = 0
    /\ ttlElapsed /\ ~LockPresent

\* C18: over the first save and every later save of the Proxy, by checks
\* that succeed or fail and by edits, the GeoIP resolution has run at most
\* once, whatever it returned.
C18_GeoIPAtMostOnce == geoCalls <= 1

\* C19: no step moves the stored last_check backward: every write of the
\* row leaves it at or after the value stored before (null, -1, before any
\* time), with any number of processes, in both modes.
C19_LastCheckMonotonic == [][db'.last_check >= db.last_check]_vars

\* C20: in async mode the Proxy a worker starts to check is the Proxy as it
\* is stored at that moment, and the write the task makes at the end leaves
\* the fields a check does not compute as they are stored then: a hostname
\* saved between the enqueue and the execution is still there.
C20_TaskUsesStoredRow ==
    [][\A p \in Procs :
          useCelery =>
              /\ (pc[p] = "idle" /\ pc'[p] \in ExecPcs) => obj'[p] = db
              /\ (pc[p] \in {"update", "except"} /\ pc'[p] # pc[p]) =>
                     db'.hostname = db.hostname]_vars

====
